---- MODULE Spec2Model ----
(***************************************************************************)
(* Model of src/main.rs: the combinator parser `parser()` for the small    *)
(* expression language and the driver `main` that reads a file, parses it  *)
(* and either prints the tree or reports the errors.                       *)
(*                                                                         *)
(* The source text is a sequence of one-character strings.  A position is  *)
(* the 1-based index of the next character to read; Len(s)+1 is the end of *)
(* input.  Every parser is an operator on (s, p) that returns a record     *)
(*   [ok, pos, val, alt]                                                   *)
(* ok: whether it matched; pos: the position after the match; val: the     *)
(* output; alt: the furthest failure seen while it ran (the engine's       *)
(* "alt" error), which is what a failed parse reports.                     *)
(*                                                                         *)
(* A primitive that matched leaves no alt.  The failure that ends its own  *)
(* scan (the first character that is no digit, no identifier character)    *)
(* lies at or before the position it stops at, and whatever is tried next  *)
(* fails there or further on, so that failure never decides which error is *)
(* the furthest.  The reason text of an error (found, expected) is not     *)
(* modelled; its position, span and context labels are.                    *)
(***************************************************************************)
EXTENDS Integers, Sequences, FiniteSets, TLC

(***************************************************************************)
(* Expr: the tree (lines 4-29).                                            *)
(***************************************************************************)
None == [tag |-> "None"]

Num(v) == [tag |-> "Num", value |-> v]

Reference(n) == [tag |-> "Reference", name |-> n]

Neg(e) == [tag |-> "Neg", operand |-> e]

Add(l, r) == [tag |-> "Add", lhs |-> l, rhs |-> r]

Sub(l, r) == [tag |-> "Sub", lhs |-> l, rhs |-> r]

Mul(l, r) == [tag |-> "Mul", lhs |-> l, rhs |-> r]

Div(l, r) == [tag |-> "Div", lhs |-> l, rhs |-> r]

Binding(n, v) == [tag |-> "Binding", name |-> n, value |-> v]

LetIn(bs, b) == [tag |-> "LetIn", bindings |-> bs, body |-> b]

Call(f, as) == [tag |-> "Call", name |-> f, args |-> as]

Lambda(a, b) == [tag |-> "Lambda", arg |-> a, body |-> b]

(***************************************************************************)
(* Character classes of the text primitives.                               *)
(***************************************************************************)
Letters == {"a", "b", "c", "d", "e", "f", "g", "h", "i", "j", "k", "l", "m",
            "n", "o", "p", "q", "r", "s", "t", "u", "v", "w", "x", "y", "z",
            "_"}

Digits == <<"0", "1", "2", "3", "4", "5", "6", "7", "8", "9">>

Radix == 10

is_whitespace(c) == c \in {" ", "\n", "\t"}

is_digit(c) == \E i \in 1..Radix : Digits[i] = c

digit_value(c) == (CHOOSE i \in 1..Radix : Digits[i] = c) - 1

is_ident_start(c) == c \in Letters

is_ident_continue(c) == c \in Letters \/ is_digit(c)

(***************************************************************************)
(* Errors.  An error has the position it was raised at, its span           *)
(* <<start, end>> (half-open, 1-based) and the stack of context labels.    *)
(* NoAlt is "no failure seen".                                             *)
(***************************************************************************)
NoAlt == [pos |-> 0, span |-> <<0, 0>>, contexts |-> <<>>]

\* the error of a primitive that found the wrong character, or the end of
\* input, at position p
Unexpected(s, p) ==
  [pos |-> p, span |-> IF p <= Len(s) THEN <<p, p + 1>> ELSE <<p, p>>,
   contexts |-> <<>>]

\* the engine keeps the furthest error; of two at the same position the
\* earlier one keeps its span and contexts
merge_alt(old, new) == IF new.pos > old.pos THEN new ELSE old

Ok(p, v, a) == [ok |-> TRUE, pos |-> p, val |-> v, alt |-> a]

Fail(a) == [ok |-> FALSE, pos |-> 0, val |-> None, alt |-> a]

(***************************************************************************)
(* Primitives and combinators.  A combinator that continues from the       *)
(* result of an earlier parser takes that result as a parameter.           *)
(***************************************************************************)
RECURSIVE skip_whitespace(_, _)
skip_whitespace(s, p) ==
  IF p <= Len(s) /\ is_whitespace(s[p]) THEN skip_whitespace(s, p + 1) ELSE p

RECURSIVE skip_ident(_, _)
skip_ident(s, p) ==
  IF p <= Len(s) /\ is_ident_continue(s[p]) THEN skip_ident(s, p + 1) ELSE p

RECURSIVE skip_digits(_, _)
skip_digits(s, p) ==
  IF p <= Len(s) /\ is_digit(s[p]) THEN skip_digits(s, p + 1) ELSE p

\* the second half of a.padded(): r is what a returned after the leading
\* whitespace was skipped; the trailing whitespace is skipped when a matched
padded(s, r) ==
  IF r.ok THEN Ok(skip_whitespace(s, r.pos), r.val, r.alt) ELSE r

\* r with the earlier failure a merged into its alt
with_alt(a, r) == [r EXCEPT !.alt = merge_alt(a, @)]

\* text::ident(): a letter or underscore, then letters, digits, underscores
text_ident(s, p) ==
  IF p <= Len(s) /\ is_ident_start(s[p])
  THEN Ok(skip_ident(s, p + 1), SubSeq(s, p, skip_ident(s, p + 1) - 1), NoAlt)
  ELSE Fail(Unexpected(s, p))

\* ident = text::ident().padded()
ident(s, p) == padded(s, text_ident(s, skip_whitespace(s, p)))

\* the check of text::keyword(k) on the identifier r read at p
keyword_check(k, p, r) ==
  IF ~r.ok THEN r
  ELSE IF r.val = k THEN r
  ELSE Fail([pos |-> p, span |-> <<p, r.pos>>, contexts |-> <<>>])

\* text::keyword(k): an identifier that is exactly k; not padded
text_keyword(k, s, p) == keyword_check(k, p, text_ident(s, p))

\* just(c): exactly the character c; not padded
just(c, s, p) ==
  IF p <= Len(s) /\ s[p] = c THEN Ok(p + 1, c, NoAlt)
  ELSE Fail(Unexpected(s, p))

\* op = |c| just(c).padded()
op(c, s, p) == padded(s, just(c, s, skip_whitespace(s, p)))

\* the output of r kept, the output of the following parser c dropped
keep_first(r, c) ==
  IF c.ok THEN Ok(c.pos, r.val, merge_alt(r.alt, c.alt))
  ELSE Fail(merge_alt(r.alt, c.alt))

\* r.then_ignore(just(c)), r being the result so far
then_ignore_just(s, r, c) ==
  IF ~r.ok THEN r ELSE keep_first(r, just(c, s, r.pos))

\* str::parse::<f64> of a string of decimal digits
RECURSIVE parse_f64(_)
parse_f64(ds) ==
  IF ds = <<>> THEN 0
  ELSE parse_f64(SubSeq(ds, 1, Len(ds) - 1)) * Radix + digit_value(ds[Len(ds)])

\* text::int(10) without the repetition after the first digit
text_int_one_digit(s, p) ==
  IF p <= Len(s) /\ is_digit(s[p]) THEN Ok(p + 1, <<s[p]>>, NoAlt)
  ELSE Fail(Unexpected(s, p))

\* text::int(10): a non-zero digit followed by digits, or a single zero
text_int(s, p) ==
  IF p <= Len(s) /\ is_digit(s[p]) /\ s[p] # "0"
  THEN Ok(skip_digits(s, p + 1), SubSeq(s, p, skip_digits(s, p + 1) - 1), NoAlt)
  ELSE IF p <= Len(s) /\ s[p] = "0" THEN Ok(p + 1, <<"0">>, NoAlt)
  ELSE Fail(Unexpected(s, p))

\* .map(|s: &str| Expr::Num(s.parse().unwrap()))
int_map(r) == IF r.ok THEN Ok(r.pos, Num(parse_f64(r.val)), r.alt) ELSE r

\* int = text::int(10).map(...).padded()
int(s, p) == padded(s, int_map(text_int(s, skip_whitespace(s, p))))

\* a.or(b): the first alternative that matches, from the same position
or(a, b) ==
  IF a.ok THEN a
  ELSE IF b.ok THEN Ok(b.pos, b.val, merge_alt(a.alt, b.alt))
  ELSE Fail(merge_alt(a.alt, b.alt))

\* repeated().collect(): the item r failed at p, which ends the repetition
\* with the input rewound to p
no_items(p, r) == [vals |-> <<>>, pos |-> p, alt |-> r.alt]

\* repeated().collect(): the item r matched and rest is what follows it
cons(r, rest) ==
  [vals |-> <<r.val>> \o rest.vals, pos |-> rest.pos,
   alt |-> merge_alt(r.alt, rest.alt)]

(***************************************************************************)
(* The expression grammar (lines 34-81).                                   *)
(***************************************************************************)
RECURSIVE expr(_, _)
RECURSIVE call_args(_, _)
RECURSIVE unary(_, _)
RECURSIVE product_fold(_, _, _)
RECURSIVE sum_fold(_, _, _)

\* one item r of the arguments, tried at p
call_args_item(s, p, r) ==
  IF ~r.ok THEN no_items(p, r)
  ELSE cons(r, call_args(s, skip_whitespace(s, r.pos)))

\* expr.clone().padded().repeated().collect(): zero or more expressions
call_args(s, p) == call_args_item(s, p, expr(s, skip_whitespace(s, p)))

\* the map of call with the at_least(1) left out
call_map_any_arity(f, args) ==
  Ok(args.pos, Call(f.val, args.vals), merge_alt(f.alt, args.alt))

\* .at_least(1) and .map(|(f, args)| Expr::Call(f, args))
call_map(f, args) ==
  IF Len(args.vals) >= 1
  THEN Ok(args.pos, Call(f.val, args.vals), merge_alt(f.alt, args.alt))
  ELSE Fail(merge_alt(f.alt, args.alt))

\* ident.then(<arguments>), f being the identifier
call_then(s, f) == IF ~f.ok THEN f ELSE call_map(f, call_args(s, f.pos))

\* call = ident.then(<arguments>.at_least(1)).map(|(f, args)| Call(f, args))
call(s, p) == call_then(s, ident(s, p))

\* the expression after the opening parenthesis open
delimited_inner(s, open) == IF ~open.ok THEN open ELSE expr(s, open.pos)

\* expr.delimited_by(just('('), just(')')): neither parenthesis is padded
delimited_expr(s, p) ==
  then_ignore_just(s, delimited_inner(s, just("(", s, p)), ")")

\* .map(Expr::Reference)
reference_map(r) == IF r.ok THEN Ok(r.pos, Reference(r.val), r.alt) ELSE r

\* ident.map(Expr::Reference)
reference(s, p) == reference_map(ident(s, p))

\* atom = int.or(<parenthesised>).or(call).or(ident.map(Reference))
atom(s, p) ==
  or(or(or(int(s, p), delimited_expr(s, p)), call(s, p)), reference(s, p))

\* |_op, rhs| Expr::Neg(Box::new(rhs))
neg_map(r) == IF r.ok THEN Ok(r.pos, Neg(r.val), r.alt) ELSE r

\* unary at p, minus being the result of op('-') there: one more minus
\* sign, or the atom
unary_minus(s, p, minus) ==
  IF minus.ok THEN neg_map(unary(s, minus.pos))
  ELSE with_alt(minus.alt, atom(s, p))

\* unary = op('-').repeated().foldr(atom, |_op, rhs| Neg(rhs))
unary(s, p) == unary_minus(s, p, op("-", s, p))

\* choice((op('*').to(Mul), op('/').to(Div)))
product_op(s, p) == or(op("*", s, p), op("/", s, p))

\* the item (o, r) of product: a failed operand ends the fold with the
\* input rewound to p, a matched one is folded into lhs
product_rhs(s, p, lhs, o, r) ==
  IF ~r.ok THEN Ok(p, lhs, merge_alt(o.alt, r.alt))
  ELSE with_alt(merge_alt(o.alt, r.alt),
                product_fold(s, r.pos,
                             IF o.val = "*" THEN Mul(lhs, r.val)
                             ELSE Div(lhs, r.val)))

\* the operator o of the next item of product, tried at p
product_item(s, p, lhs, o) ==
  IF ~o.ok THEN Ok(p, lhs, o.alt)
  ELSE product_rhs(s, p, lhs, o, unary(s, o.pos))

\* the repeated (operator, unary) items of product, folded to the left on lhs
product_fold(s, p, lhs) == product_item(s, p, lhs, product_op(s, p))

\* the fold of product, u being its first operand
product_first(s, u) ==
  IF ~u.ok THEN u ELSE with_alt(u.alt, product_fold(s, u.pos, u.val))

\* product = unary.foldl(<items>.repeated(), |lhs, (op, rhs)| op(lhs, rhs))
product(s, p) == product_first(s, unary(s, p))

\* choice((op('+').to(Add), op('-').to(Sub)))
sum_op(s, p) == or(op("+", s, p), op("-", s, p))

\* the item (o, r) of sum
sum_rhs(s, p, lhs, o, r) ==
  IF ~r.ok THEN Ok(p, lhs, merge_alt(o.alt, r.alt))
  ELSE with_alt(merge_alt(o.alt, r.alt),
                sum_fold(s, r.pos,
                         IF o.val = "+" THEN Add(lhs, r.val)
                         ELSE Sub(lhs, r.val)))

\* the operator o of the next item of sum, tried at p
sum_item(s, p, lhs, o) ==
  IF ~o.ok THEN Ok(p, lhs, o.alt)
  ELSE sum_rhs(s, p, lhs, o, product(s, o.pos))

\* the repeated (operator, product) items of sum, folded to the left on lhs
sum_fold(s, p, lhs) == sum_item(s, p, lhs, sum_op(s, p))

\* the fold of sum, u being its first operand
sum_first(s, u) ==
  IF ~u.ok THEN u ELSE with_alt(u.alt, sum_fold(s, u.pos, u.val))

\* sum = product.foldl(<items>.repeated(), |lhs, (op, rhs)| op(lhs, rhs))
sum(s, p) == sum_first(s, product(s, p))

\* recursive(|expr| ... sum)
expr(s, p) == sum(s, p)

(***************************************************************************)
(* The declaration grammar (lines 83-116).                                 *)
(***************************************************************************)
RECURSIVE decl(_, _)
RECURSIVE bindings(_, _)

\* the error a with (label, span) pushed on its contexts, unless the label
\* is there already
in_context(a, label, span) ==
  IF \A i \in 1..Len(a.contexts) : a.contexts[i].label # label
  THEN [a EXCEPT !.contexts = Append(@, [label |-> label, span |-> span])]
  ELSE a

\* p.labelled(label), entered at position p with result r.  An error raised
\* at p itself only has its expected-set renamed to the label (the reason
\* text is not part of this model).  An error raised further on gets
\* (label, span) pushed on its contexts only when the label was made a
\* context with as_context(); the source calls labelled() alone, so both
\* uses pass FALSE.
labelled(label, is_context, p, r) ==
  IF r.alt # NoAlt /\ is_context /\ r.alt.pos > p
  THEN [r EXCEPT !.alt = in_context(@, label, <<p, r.alt.pos>>)]
  ELSE r

\* .map(|(ident, expr)| Expr::Binding { name, value })
binding_map(n, v) ==
  IF ~v.ok THEN Fail(merge_alt(n.alt, v.alt))
  ELSE Ok(v.pos, Binding(n.val, v.val), merge_alt(n.alt, v.alt))

\* ident.then_ignore(just('=')).then(decl), n being the name and the `=`
binding_value(s, n) == IF ~n.ok THEN n ELSE binding_map(n, decl(s, n.pos))

\* binding = ident.then_ignore(just('=')).then(decl).then_ignore(just(';'))
\*             .padded().map(Binding).labelled("binding")
binding(s, p) ==
  labelled("binding", FALSE, p,
    padded(s,
      then_ignore_just(s,
        binding_value(s,
          then_ignore_just(s, ident(s, skip_whitespace(s, p)), "=")),
        ";")))

\* one item r of the bindings, tried at p
bindings_item(s, p, r) ==
  IF ~r.ok THEN no_items(p, r) ELSE cons(r, bindings(s, r.pos))

\* binding.repeated().collect(): zero or more bindings
bindings(s, p) == bindings_item(s, p, binding(s, p))

\* .map(|(bindings, body)| Expr::LetIn { bindings, body })
let_in_map(bs, b) ==
  IF ~b.ok THEN Fail(merge_alt(bs.alt, b.alt))
  ELSE Ok(b.pos, LetIn(bs.vals, b.val), merge_alt(bs.alt, b.alt))

\* .then(decl) after the keyword `in`, read with result in
let_in_body(s, bs, in) ==
  IF ~in.ok THEN Fail(merge_alt(bs.alt, in.alt))
  ELSE let_in_map(bs, decl(s, in.pos))

\* .then_ignore(text::keyword("in")) after the bindings bs
let_in_keyword_in(s, bs) ==
  let_in_body(s, bs, text_keyword(<<"i", "n">>, s, bs.pos))

\* .ignore_then(binding.repeated().collect()) after the keyword `let`, read
\* with result k
let_in_bindings(s, k) ==
  IF ~k.ok THEN k ELSE let_in_keyword_in(s, bindings(s, k.pos))

\* let_in = text::keyword("let").ignore_then(binding.repeated().collect())
\*            .then_ignore(text::keyword("in")).then(decl).map(LetIn)
\*            .labelled("let-in")
let_in(s, p) ==
  labelled("let-in", FALSE, p,
    let_in_bindings(s, text_keyword(<<"l", "e", "t">>, s, p)))

\* .map(|(ident, expr)| Expr::Lambda { arg, body })
func_map(a, b) ==
  IF ~b.ok THEN Fail(merge_alt(a.alt, b.alt))
  ELSE Ok(b.pos, Lambda(a.val, b.val), merge_alt(a.alt, b.alt))

\* .then(decl), a being the argument and the `:`
func_body(s, a) == IF ~a.ok THEN a ELSE func_map(a, decl(s, a.pos))

\* func = ident.then_ignore(just(':')).then(decl).map(Lambda)
func(s, p) == func_body(s, then_ignore_just(s, ident(s, p), ":"))

\* the alternatives with the expression tried before the lambda
decl_choice_expr_first(s, p) == or(or(let_in(s, p), expr(s, p)), func(s, p))

\* let_in.or(func).or(expr)
decl_choice(s, p) == or(or(let_in(s, p), func(s, p)), expr(s, p))

\* recursive(|decl| ... let_in.or(func).or(expr).padded())
decl(s, p) == padded(s, decl_choice(s, skip_whitespace(s, p)))

\* as if every binding terminator were a recovery point that records an error
secondary_errors_per_binding(s) ==
  [i \in 1..Cardinality({j \in 1..Len(s) : s[j] = ";"}) |-> Unexpected(s, Len(s) + 1)]

\* the errors a recovery strategy would have recorded while parsing went on;
\* parser() installs none
secondary_errors(s) == <<>>

\* into_output_errors() of the result r of the declaration parser: the tree
\* when the declaration matched the whole input, otherwise no tree and the
\* furthest error, the end of input having been expected where r stopped
into_output_errors(s, r) ==
  IF r.ok /\ r.pos = Len(s) + 1
  THEN [ast |-> r.val, errs |-> secondary_errors(s)]
  ELSE [ast |-> None,
        errs |-> secondary_errors(s) \o
                 <<IF r.ok THEN merge_alt(r.alt, Unexpected(s, r.pos)) ELSE r.alt>>]

\* parser().parse(&src).into_output_errors()
parse(s) == into_output_errors(s, decl(s, 1))

(***************************************************************************)
(* The files main is run on.  Every family is a set of texts; the bounds   *)
(* say how long they get.                                                  *)
(***************************************************************************)
MaxFreeLen == 3

MaxOps == 2

MaxArgs == 2

MaxBindings == 2

MaxDigits == 3

MaxDepth == 2

RECURSIVE Flatten(_)
Flatten(ss) == IF ss = <<>> THEN <<>> ELSE Head(ss) \o Flatten(Tail(ss))

\* every text of at most MaxFreeLen characters over FreeChars
FreeChars == {"a", "1", "0", "-", "+", "(", ")", " ", ":", ";", "="}

FreeInputs == UNION {[1..n -> FreeChars] : n \in 0..MaxFreeLen}

\* operand (op operand)^k, k <= MaxOps, written with or without spaces
Operands == {"1", "2", "a"}

Operators == {"+", "-", "*", "/"}

ChainText(os, ops, sep) ==
  <<os[1]>> \o Flatten([i \in 1..Len(ops) |-> sep \o <<ops[i]>> \o sep \o <<os[i + 1]>>])

ChainInputs ==
  UNION {{ChainText(os, ops, sep) :
            os \in [1..k + 1 -> Operands], ops \in [1..k -> Operators],
            sep \in {<<>>, <<" ">>}} : k \in 0..MaxOps}

\* f a1 ... an, n <= MaxArgs, separated by single spaces
CallNames == {"f", "x", "y"}

CallText(ns) == <<ns[1]>> \o Flatten([i \in 1..Len(ns) - 1 |-> <<" ", ns[i + 1]>>])

CallInputs == UNION {{CallText(ns) : ns \in [1..n + 1 -> CallNames]} : n \in 0..MaxArgs}

\* let name = value; ... in body, with at most MaxBindings bindings; the
\* empty value gives the malformed binding `name = ;`
BindingNames == {<<"a">>, <<"b">>}

BindingValues == {<<"1">>, <<"b">>, <<>>}

LetBodies == {<<"a">>, <<"b", "o", "d", "y">>, <<"a", " ", "+", " ", "b">>}

LetText(names, values, body) ==
  <<"l", "e", "t">>
  \o Flatten([i \in 1..Len(names) |-> <<" ">> \o names[i] \o <<" ", "=", " ">> \o values[i] \o <<";">>])
  \o <<" ", "i", "n", " ">> \o body

LetInputs ==
  UNION {{LetText(names, values, body) :
            names \in [1..n -> BindingNames], values \in [1..n -> BindingValues],
            body \in LetBodies} : n \in 0..MaxBindings}

\* every text of 1..MaxDigits digits over DigitChars
DigitChars == {"0", "1", "7"}

DigitInputs == UNION {[1..n -> DigitChars] : n \in 1..MaxDigits}

\* a core wrapped in k <= MaxDepth pairs of parentheses, with pad after
\* every "(" and before every ")"
ParenCores == {<<"1">>, <<"a">>, <<"-", "1">>, <<"f", " ", "x">>}

RECURSIVE Wrap(_, _, _)
Wrap(core, k, pad) ==
  IF k = 0 THEN core ELSE <<"(">> \o pad \o Wrap(core, k - 1, pad) \o pad \o <<")">>

ParenInputs ==
  {Wrap(c, k, pad) : c \in ParenCores, k \in 0..MaxDepth, pad \in {<<>>, <<" ">>}}

\* head body, where head is `x:` in several spellings and body any text of
\* the families above but the free one
LambdaHeads == {<<"x", ":">>, <<"x", " ", ":", " ">>, <<"l", "e", "t", ":">>,
                <<"x", ":", "y", ":">>}

LambdaBodies == ChainInputs \cup CallInputs \cup LetInputs \cup DigitInputs \cup ParenInputs

LambdaInputs == {h \o b : h \in LambdaHeads, b \in LambdaBodies}

Inputs == FreeInputs \cup LambdaBodies \cup LambdaInputs

(***************************************************************************)
(* main (lines 119-148).                                                   *)
(***************************************************************************)
VARIABLES pc, src, ast, errs, stdout, stderr, exit_code

vars == <<pc, src, ast, errs, stdout, stderr, exit_code>>

Init ==
  /\ pc = "read"
  /\ src = <<>>
  /\ ast = None
  /\ errs = <<>>
  /\ stdout = <<>>
  /\ stderr = <<>>
  /\ exit_code = <<>>

\* std::fs::read_to_string(&file_name).unwrap(), the file holding some text
ReadFile ==
  /\ pc = "read"
  /\ \E s \in Inputs : src' = s
  /\ pc' = "parse"
  /\ UNCHANGED <<ast, errs, stdout, stderr, exit_code>>

\* the two unwraps of lines 120-121 when there is no argument or the file
\* cannot be read as UTF-8: the process panics
ReadPanic ==
  /\ pc = "read"
  /\ pc' = "panicked"
  /\ exit_code' = <<101>>
  /\ UNCHANGED <<src, ast, errs, stdout, stderr>>

\* let (ast, errs) = parser().parse(&src).into_output_errors()
Parse ==
  /\ pc = "parse"
  /\ LET r == parse(src) IN ast' = r.ast /\ errs' = r.errs
  /\ pc' = "check"
  /\ UNCHANGED <<src, stdout, stderr, exit_code>>

\* one report per error: the primary span in red, then one yellow label
\* "while parsing this <label>" per context
Report(e) ==
  [offset |-> e.span[1],
   labels |-> <<[span |-> e.span, message |-> "reason", color |-> "Red"]>>
              \o [i \in 1..Len(e.contexts) |->
                    [span |-> e.contexts[i].span,
                     message |-> e.contexts[i].label, color |-> "Yellow"]]]

\* if !errs.is_empty() { ... print every report ...; exit(1) }
ReportErrors ==
  /\ pc = "check"
  /\ errs # <<>>
  /\ stderr' = [i \in 1..Len(errs) |-> Report(errs[i])]
  /\ exit_code' = <<1>>
  /\ pc' = "done"
  /\ UNCHANGED <<src, ast, errs, stdout>>

\* println!("{:#?}", ast)
PrintAst ==
  /\ pc = "check"
  /\ errs = <<>>
  /\ stdout' = <<ast>>
  /\ exit_code' = <<0>>
  /\ pc' = "done"
  /\ UNCHANGED <<src, ast, errs, stderr>>

Next == ReadFile \/ ReadPanic \/ Parse \/ ReportErrors \/ PrintAst

Spec == Init /\ [][Next]_vars

TypeOK ==
  /\ pc \in {"read", "parse", "check", "done", "panicked"}
  /\ exit_code \in {<<>>, <<0>>, <<1>>, <<101>>}

(***************************************************************************)
(* Helpers of the properties.                                              *)
(***************************************************************************)
Parsed == pc \in {"check", "done"}

Accepted == Parsed /\ errs = <<>>

\* every node of a tree
RECURSIVE Nodes(_)
Nodes(t) ==
  {t} \cup
  CASE t.tag \in {"Add", "Sub", "Mul", "Div"} -> Nodes(t.lhs) \cup Nodes(t.rhs)
    [] t.tag = "Neg" -> Nodes(t.operand)
    [] t.tag = "Binding" -> Nodes(t.value)
    [] t.tag = "LetIn" ->
         UNION {Nodes(t.bindings[i]) : i \in 1..Len(t.bindings)} \cup Nodes(t.body)
    [] t.tag = "Call" -> UNION {Nodes(t.args[i]) : i \in 1..Len(t.args)}
    [] t.tag = "Lambda" -> Nodes(t.body)
    [] OTHER -> {}

NotWhitespace(c) == ~is_whitespace(c)

\* the text without its whitespace
Strip(s) == SelectSeq(s, NotWhitespace)

\* the value of a string of decimal digits, most significant digit first
RECURSIVE DecimalValue(_, _)
DecimalValue(ds, acc) ==
  IF ds = <<>> THEN acc
  ELSE DecimalValue(Tail(ds), 10 * acc + digit_value(Head(ds)))

AllDigits(s) == s # <<>> /\ \A i \in 1..Len(s) : is_digit(s[i])

(***************************************************************************)
(* C1.                                                                     *)
(***************************************************************************)
\* f a1 ... an with n >= 1: one-letter identifiers separated by one space
IsCallForm(s) ==
  /\ Len(s) >= 3
  /\ Len(s) % 2 = 1
  /\ \A i \in 1..Len(s) : IF i % 2 = 1 THEN s[i] \in Letters ELSE s[i] = " "

\* C1: `f a1 ... an` (n >= 1 bare identifiers) is accepted and parses to the
\* flat Call(f, [Reference(a1), ..., Reference(an)]), n arguments in source
\* order, never a nested call.
C1_FlatCall ==
  (Parsed /\ IsCallForm(src)) =>
    /\ errs = <<>>
    /\ ast = Call(<<src[1]>>,
                  [i \in 1..(Len(src) - 1) \div 2 |-> Reference(<<src[2 * i + 1]>>)])

(***************************************************************************)
(* C2.                                                                     *)
(***************************************************************************)
\* o1 op1 o2 ... on over one-character operands, whitespace removed
IsChain(t) ==
  /\ Len(t) % 2 = 1
  /\ \A i \in 1..Len(t) :
       IF i % 2 = 1 THEN is_digit(t[i]) \/ t[i] \in Letters
       ELSE t[i] \in Operators

Operand(c) == IF is_digit(c) THEN Num(digit_value(c)) ELSE Reference(<<c>>)

Binary(o, l, r) ==
  CASE o = "+" -> Add(l, r) [] o = "-" -> Sub(l, r)
    [] o = "*" -> Mul(l, r) [] o = "/" -> Div(l, r)

\* the reference precedence grammar on a chain t: the operands b..e of one
\* product, grouped left to right
RECURSIVE TermTree(_, _, _)
TermTree(t, b, e) ==
  IF e = b THEN Operand(t[b])
  ELSE Binary(t[e - 1], TermTree(t, b, e - 2), Operand(t[e]))

\* where the product that ends at operand e starts
RECURSIVE TermStart(_, _)
TermStart(t, e) ==
  IF e > 1 /\ t[e - 1] \in {"*", "/"} THEN TermStart(t, e - 2) ELSE e

\* the sum of the products of t[1..e], grouped left to right
RECURSIVE SumTree(_, _)
SumTree(t, e) ==
  LET b == TermStart(t, e)
  IN  IF b = 1 THEN TermTree(t, 1, e)
      ELSE Binary(t[b - 1], SumTree(t, b - 2), TermTree(t, b, e))

\* C2: a chain o1 op1 o2 ... on of number literals and bare identifiers
\* parses to the tree of the precedence grammar: * and / bind tighter than +
\* and -, equal precedence groups left to right.
C2_PrecedenceTree ==
  (Parsed /\ IsChain(Strip(src))) =>
    /\ errs = <<>>
    /\ ast = SumTree(Strip(src), Len(Strip(src)))

(***************************************************************************)
(* C3.                                                                     *)
(***************************************************************************)
\* C3: in the tree of an accepted input without parentheses no Call has an
\* argument that is a Neg, Add, Sub, Mul or Div node: a call binds tighter
\* than every operator.
C3_ArgumentsAreAtoms ==
  (Accepted /\ \A i \in 1..Len(src) : src[i] \notin {"(", ")"}) =>
    \A n \in Nodes(ast) :
      n.tag = "Call" =>
        \A i \in 1..Len(n.args) :
          n.args[i].tag \notin {"Neg", "Add", "Sub", "Mul", "Div"}

(***************************************************************************)
(* C4.                                                                     *)
(***************************************************************************)
WellFormed(text) == parse(text).errs = <<>>

\* C4: `let`, n >= 0 well-formed bindings, `in`, a well-formed body parses
\* to LetIn with exactly those n bindings in source order and that body;
\* n = 0 included.
C4_LetInBindings ==
  Parsed =>
    \A n \in 0..MaxBindings :
      \A names \in [1..n -> BindingNames], values \in [1..n -> BindingValues],
         body \in LetBodies :
        (/\ src = LetText(names, values, body)
         /\ \A i \in 1..n : WellFormed(values[i])
         /\ WellFormed(body)) =>
          /\ errs = <<>>
          /\ ast = LetIn([i \in 1..n |-> Binding(names[i], parse(values[i]).ast)],
                         parse(body).ast)

(***************************************************************************)
(* C5.                                                                     *)
(***************************************************************************)
\* C5 as stated: every non-empty string of decimal digits, leading zeros
\* included, is accepted as the whole input and yields Num of its value.
C5_EveryDigitString ==
  (Parsed /\ AllDigits(src)) =>
    errs = <<>> /\ ast = Num(DecimalValue(src, 0))

\* no zero in front of another digit
NoLeadingZero(s) == Len(s) = 1 \/ s[1] # "0"

\* C5, amended: every non-empty string of decimal digits without a leading
\* zero ("0" itself, or a string starting with 1..9) is accepted as the
\* whole input and yields Num of its value.
C5_CanonicalDigitString ==
  (Parsed /\ AllDigits(src) /\ NoLeadingZero(src)) =>
    errs = <<>> /\ ast = Num(DecimalValue(src, 0))

C5_Witness ==
  pc = "done" /\ src = <<"1", "0", "7">> /\ stdout = <<Num(107)>>

(***************************************************************************)
(* C6.                                                                     *)
(***************************************************************************)
\* position k lies between two tokens, or at either end of the text
TokenBoundary(s, k) ==
  k = 1 \/ k = Len(s) + 1 \/ ~(is_ident_continue(s[k - 1]) /\ is_ident_continue(s[k]))

InsertAt(s, k, c) == SubSeq(s, 1, k - 1) \o <<c>> \o SubSeq(s, k, Len(s))

\* C6: for an accepted input, one more whitespace character between two
\* adjacent tokens, or at the start or end, gives an input that is accepted
\* with the same tree.
C6_WhitespaceInsignificant ==
  Accepted =>
    \A k \in 1..Len(src) + 1 :
      TokenBoundary(src, k) =>
        parse(InsertAt(src, k, " ")) = [ast |-> ast, errs |-> <<>>]

(***************************************************************************)
(* C7.                                                                     *)
(***************************************************************************)
\* the bindings `name = ;` of the text: an "=" whose next character other
\* than whitespace is ";"
MissingValues(s) ==
  {i \in 1..Len(s) :
     /\ s[i] = "="
     /\ skip_whitespace(s, i + 1) <= Len(s)
     /\ s[skip_whitespace(s, i + 1)] = ";"}

LetMissingValue == LetText(<<<<"a">>>>, <<<<>>>>, <<"a">>)

Covers(span, p) == span[1] <= p /\ p < span[2]

ContextLabels(e) == {e.contexts[i].label : i \in 1..Len(e.contexts)}

\* C8: `let a = ; in a` gives a non-empty error list with an error whose
\* primary span covers the unexpected `;` and whose context labels include
\* binding and let-in, and no tree is printed.
C8_MissingValueDiagnostic ==
  (pc = "done" /\ src = LetMissingValue) =>
    /\ errs # <<>>
    /\ \E i \in 1..Len(errs) :
         /\ Covers(errs[i].span, 9)
         /\ {"binding", "let-in"} \subseteq ContextLabels(errs[i])
    /\ stdout = <<>>

(***************************************************************************)
(* C9.                                                                     *)
(***************************************************************************)
\* what cannot start an argument, `-` aside: the binary operators, `)`, `;`
\* and `=`
Stoppers == {"+", "*", "/", ")", ";", "="}

\* an identifier starts at p and is followed, after whitespace, by the end of
\* input or a stopper
IdentBeforeStopper(s, p) ==
  /\ is_ident_start(s[p])
  /\ p = 1 \/ ~is_ident_continue(s[p - 1])
  /\ LET q == skip_whitespace(s, skip_ident(s, p))
     IN  q = Len(s) + 1 \/ s[q] \in Stoppers

\* C9: every Call of a parsed tree has at least one argument, and an
\* identifier followed by nothing that can start an argument is a Reference
\* that ends where the identifier and its padding end, as if the call had
\* not been tried.
C9_CallHasArguments ==
  /\ Parsed => \A n \in Nodes(ast) : n.tag = "Call" => Len(n.args) >= 1
  /\ \A p \in 1..Len(src) :
       IdentBeforeStopper(src, p) =>
         LET a == atom(src, p)
             e == skip_ident(src, p)
         IN  /\ a.ok
             /\ a.val = Reference(SubSeq(src, p, e - 1))
             /\ a.pos = skip_whitespace(src, e)

C9_Witness ==
  /\ pc = "done"
  /\ src = <<"(", "f", " ", "x", ")">>
  /\ IdentBeforeStopper(src, 4)
  /\ stdout = <<Call(<<"f">>, <<Reference(<<"x">>)>>)>>

(***************************************************************************)
(* C10.                                                                    *)
(***************************************************************************)
\* the text is `x: d`: an identifier, a colon, and a rest d that is accepted
\* on its own
LambdaArg(s) == ident(s, skip_whitespace(s, 1))

LambdaBody(s) == SubSeq(s, LambdaArg(s).pos + 1, Len(s))

IsLambdaForm(s) ==
  /\ LambdaArg(s).ok
  /\ LambdaArg(s).pos <= Len(s)
  /\ s[LambdaArg(s).pos] = ":"
  /\ WellFormed(LambdaBody(s))

\* C10: `x: d` with d a well-formed declaration is accepted and parses to
\* Lambda{arg: x, body: tree(d)}; it is never a Reference with trailing
\* input and never an error.
C10_LambdaBeforeExpression ==
  (Parsed /\ IsLambdaForm(src)) =>
    /\ errs = <<>>
    /\ ast = Lambda(LambdaArg(src).val, parse(LambdaBody(src)).ast)

C10_Witness ==
  /\ pc = "done"
  /\ src = <<"x", ":", "y", ":", "1">>
  /\ stdout = <<Lambda(<<"x">>, Lambda(<<"y">>, Num(1)))>>

====
